---- MODULE Spec2Model ----
(***************************************************************************)
(* restic_wrapper (cmd/main.go): a backup run guarded by a non-blocking    *)
(* file lock.  Every invocation is one operating-system process executing  *)
(* main(); the invocations of a host share the lock file, the              *)
(* configuration file and the keychain.                                    *)
(***************************************************************************)
EXTENDS Integers, Sequences, FiniteSets, TLC

\* Number of invocations that may be alive on the host at the same time.
NumProcs == 2

Procs == 1..NumProcs

\* flockHolder value when no process holds the kernel lock on the lock file.
NoProc == 0

\* exitStatus value of a process that has not terminated.
Running == -1

NL == "\n"

----------------------------------------------------------------------------
\* Byte strings are sequences of one-character strings.

IsSpace(c) == c \in {" ", NL, "\t", "\r"}

RECURSIVE TrimLeft(_)
TrimLeft(s) ==
    IF s = <<>> THEN <<>>
    ELSE IF IsSpace(Head(s)) THEN TrimLeft(Tail(s)) ELSE s

RECURSIVE TrimRight(_)
TrimRight(s) ==
    IF s = <<>> THEN <<>>
    ELSE IF IsSpace(s[Len(s)]) THEN TrimRight(SubSeq(s, 1, Len(s) - 1)) ELSE s

\* bytes.TrimSpace / strings.TrimSpace
TrimSpace(s) == TrimRight(TrimLeft(s))

\* strings.Split(s, "\n"): always at least one (possibly empty) piece.
RECURSIVE SplitFrom(_, _)
SplitFrom(s, cur) ==
    IF s = <<>> THEN <<cur>>
    ELSE IF Head(s) = NL THEN <<cur>> \o SplitFrom(Tail(s), <<>>)
    ELSE SplitFrom(Tail(s), Append(cur, Head(s)))

Split(s) == SplitFrom(s, <<>>)

----------------------------------------------------------------------------
\* The five keychain accounts, in the order setupEnv queries them, and the
\* environment variable each result is assigned to.
Accounts ==
    << "aws-region", "aws-access-key-id", "aws-secret-access-key",
       "repository", "password" >>

EnvNames ==
    << "AWS_DEFAULT_REGION", "AWS_ACCESS_KEY_ID", "AWS_SECRET_ACCESS_KEY",
       "RESTIC_REPOSITORY", "RESTIC_PASSWORD" >>

EnvNameSet == { EnvNames[i] : i \in 1..Len(EnvNames) }

\* What one `security find-generic-password ... -w` query can do: finish with
\* exit status zero and some output, exit non-zero, or be killed by the
\* one-minute timeout.
SecurityOutputs == { <<NL>>, <<"k", NL>> }

SecurityAnswers ==
    [status : {"ok"}, out : SecurityOutputs]
        \cup [status : {"exit", "timeout"}, out : {<<>>}]

\* The keychain contents the model explores: every account answers with a
\* value, except at most one, which may answer anything.
GoodAnswer == [status |-> "ok", out |-> <<"k", NL>>]

Keychains ==
    { [i \in 1..Len(Accounts) |-> IF i = j THEN a ELSE GoodAnswer] :
        j \in 1..Len(Accounts), a \in SecurityAnswers }

\* What the power-status command can print (as words).
PmsetOutputs ==
    { << "Now", "drawing", "from", "AC Power" >>,
      << "Now", "drawing", "from", "Battery Power" >> }

\* strings.Contains(outputStr, "AC Power")
ContainsAcPower(out) == \E i \in 1..Len(out) : out[i] = "AC Power"

\* Variant of isOnPower: the marker is not looked for.
isOnPowerAlwaysAc(failed, out) ==
    IF failed THEN [isAcPower |-> FALSE, err |-> TRUE]
    ELSE [isAcPower |-> TRUE, err |-> FALSE]

\* Variant of isOnPower: the command's error is dropped.
isOnPowerErrorDropped(failed, out) ==
    [isAcPower |-> ~failed /\ ContainsAcPower(out), err |-> FALSE]

\* isOnPower(), lines 95-104: (isAcPower, err)
isOnPower(failed, out) ==
    IF failed THEN [isAcPower |-> FALSE, err |-> TRUE]
    ELSE [isAcPower |-> ContainsAcPower(out), err |-> FALSE]

\* Captured buffers of one engine process: what it wrote to stdout and to
\* stderr (two lines with an empty line between them, and a trailing newline).
EngineStdouts == { << "o", NL, NL, "p", NL >> }

EngineStderrs == { << "e", NL, NL, "f", NL >> }

\* appConfig.SecurityService, the "srv" field of the fatal event.
SecurityService == << "s", "v", "c" >>

UnsetEnv == [n \in EnvNameSet |-> [set |-> FALSE, val |-> <<>>]]

----------------------------------------------------------------------------
VARIABLES
    appConfig,    \* RequireAcPower, CleanupOldBackups of the shared config file
    keychain,     \* answer of the secret store for each of the five accounts
    pmsetOut,     \* what the power-status command prints on this host
    flockHolder,  \* process holding the kernel lock on the lock file, or NoProc
    pc,           \* position of each process in main()
    ctx,          \* the 30-minute run context: "none", "live" or "expired"
    deferred,     \* stack of deferred calls of main(), innermost last
    env,          \* process environment (the five credential variables)
    childEnv,     \* environments handed to the engine processes (cmd.Env)
    hist,         \* externally visible operations each process performed
    logged,       \* log events each process emitted
    exitStatus    \* Running, or the exit status of the terminated process

vars ==
    << appConfig, keychain, pmsetOut, flockHolder, pc, ctx, deferred, env,
       childEnv, hist, logged, exitStatus >>

\* One externally visible operation, its argument and its result.
Ev(op, arg, result) == [op |-> op, arg |-> arg, result |-> result]

\* A returned cmd.Run() of an engine command: whether it returned an error,
\* and the two captured buffers.
RunEv(operation, failed, stdout, stderr) ==
    [op |-> "cmd.Run", arg |-> operation,
     result |-> IF failed THEN "error" ELSE "ok",
     stdout |-> stdout, stderr |-> stderr]

\* One log event: level, the statement that emitted it, the "operation" field
\* (args[0] of an engine command) and the text of an engine output line.
LogEv(level, event, operation, text) ==
    [level |-> level, event |-> event, operation |-> operation, text |-> text]

Init ==
    /\ appConfig \in [RequireAcPower : BOOLEAN, CleanupOldBackups : BOOLEAN]
    /\ keychain \in Keychains
    /\ pmsetOut \in PmsetOutputs
    /\ flockHolder = NoProc
    /\ pc = [p \in Procs |-> "TryLock"]
    /\ ctx = [p \in Procs |-> "none"]
    /\ deferred = [p \in Procs |-> <<>>]
    /\ env = [p \in Procs |-> UnsetEnv]
    /\ childEnv = [p \in Procs |-> <<>>]
    /\ hist = [p \in Procs |-> <<>>]
    /\ logged = [p \in Procs |-> <<>>]
    /\ exitStatus = [p \in Procs |-> Running]

----------------------------------------------------------------------------
\* How a process ends.

\* Is fileLock.Unlock() among the deferred calls of main()?
RECURSIVE UnlockDeferred(_)
UnlockDeferred(stack) ==
    IF stack = <<>> THEN FALSE
    ELSE Head(stack) = "Unlock" \/ UnlockDeferred(Tail(stack))

\* main() returns after performing the operations ops and emitting the log
\* events evs: the deferred calls run (cancel(), then fileLock.Unlock(), which
\* releases the lock), then the process exits with status 0.
ReturnFromMain(p, ops, evs) ==
    /\ logged' = [logged EXCEPT ![p] = @ \o evs]
    /\ hist' = [hist EXCEPT ![p] =
                   IF UnlockDeferred(deferred[p])
                   THEN (@ \o ops) \o << Ev("Unlock", "", "ok") >>
                   ELSE @ \o ops]
    /\ flockHolder' = IF flockHolder = p THEN NoProc ELSE flockHolder
    /\ deferred' = [deferred EXCEPT ![p] = <<>>]
    /\ ctx' = [ctx EXCEPT ![p] = "none"]
    /\ pc' = [pc EXCEPT ![p] = "exited"]
    /\ exitStatus' = [exitStatus EXCEPT ![p] = 0]
    /\ UNCHANGED << appConfig, keychain, pmsetOut, env, childEnv >>

\* Variant of OsExit: the lock stays with the process that has ended.
OsExitKeepsLock(p, code, ops, evs) ==
    /\ logged' = [logged EXCEPT ![p] = @ \o evs]
    /\ hist' = [hist EXCEPT ![p] = @ \o ops]
    /\ deferred' = [deferred EXCEPT ![p] = <<>>]
    /\ ctx' = [ctx EXCEPT ![p] = "none"]
    /\ pc' = [pc EXCEPT ![p] = "exited"]
    /\ exitStatus' = [exitStatus EXCEPT ![p] = code]
    /\ UNCHANGED << appConfig, keychain, pmsetOut, flockHolder, env, childEnv >>

\* os.Exit(code), also reached through log.Fatal: the process ends at once and
\* no deferred call runs.  The kernel closes the lock file's descriptor, which
\* drops the lock without any Unlock() call.
OsExit(p, code, ops, evs) ==
    /\ logged' = [logged EXCEPT ![p] = @ \o evs]
    /\ hist' = [hist EXCEPT ![p] = @ \o ops]
    /\ flockHolder' = IF flockHolder = p THEN NoProc ELSE flockHolder
    /\ deferred' = [deferred EXCEPT ![p] = <<>>]
    /\ ctx' = [ctx EXCEPT ![p] = "none"]
    /\ pc' = [pc EXCEPT ![p] = "exited"]
    /\ exitStatus' = [exitStatus EXCEPT ![p] = code]
    /\ UNCHANGED << appConfig, keychain, pmsetOut, env, childEnv >>

\* The process performs ops, emits evs and moves on to the statement at next.
Goto(p, next, ops, evs) ==
    /\ pc' = [pc EXCEPT ![p] = next]
    /\ hist' = [hist EXCEPT ![p] = @ \o ops]
    /\ logged' = [logged EXCEPT ![p] = @ \o evs]
    /\ UNCHANGED << appConfig, keychain, pmsetOut, exitStatus >>

----------------------------------------------------------------------------
\* Variant of TryLock: the result `locked` is not looked at, so a second
\* invocation carries on while the lock is held.
TryLockIgnoringLocked(p) ==
    /\ pc[p] = "TryLock"
    /\ \E failed \in BOOLEAN :
        IF failed
        THEN OsExit(p, 1, << Ev("TryLock", "", "error") >>,
                    << LogEv("error", "cannot lock the lock file", "", <<>>) >>)
        ELSE /\ flockHolder' = IF flockHolder = NoProc THEN p ELSE flockHolder
             /\ deferred' = [deferred EXCEPT ![p] = << "Unlock", "cancel" >>]
             /\ ctx' = [ctx EXCEPT ![p] = "live"]
             /\ Goto(p, "LookPath", << Ev("TryLock", "", "locked") >>, <<>>)
             /\ UNCHANGED << env, childEnv >>

\* Variant of TryLock: contention is treated like a locking error.
TryLockBusyIsError(p) ==
    /\ pc[p] = "TryLock"
    /\ \E failed \in BOOLEAN :
        IF failed
        THEN OsExit(p, 1, << Ev("TryLock", "", "error") >>,
                    << LogEv("error", "cannot lock the lock file", "", <<>>) >>)
        ELSE IF flockHolder # NoProc
        THEN OsExit(p, 1, << Ev("TryLock", "", "busy") >>,
                    << LogEv("warning", "Another instance", "", <<>>) >>)
        ELSE /\ flockHolder' = p
             /\ deferred' = [deferred EXCEPT ![p] = << "Unlock", "cancel" >>]
             /\ ctx' = [ctx EXCEPT ![p] = "live"]
             /\ Goto(p, "LookPath", << Ev("TryLock", "", "locked") >>, <<>>)
             /\ UNCHANGED << env, childEnv >>

\* Variant of TryLock: a locking error is logged and main() returns.
TryLockErrorReturns(p) ==
    /\ pc[p] = "TryLock"
    /\ \E failed \in BOOLEAN :
        IF failed
        THEN ReturnFromMain(p, << Ev("TryLock", "", "error") >>,
                    << LogEv("error", "cannot lock the lock file", "", <<>>) >>)
        ELSE IF flockHolder # NoProc
        THEN ReturnFromMain(p, << Ev("TryLock", "", "busy") >>,
                    << LogEv("warning", "Another instance", "", <<>>) >>)
        ELSE /\ flockHolder' = p
             /\ deferred' = [deferred EXCEPT ![p] = << "Unlock", "cancel" >>]
             /\ ctx' = [ctx EXCEPT ![p] = "live"]
             /\ Goto(p, "LookPath", << Ev("TryLock", "", "locked") >>, <<>>)
             /\ UNCHANGED << env, childEnv >>

\* main(), lines 230-244: fileLock.TryLock() and the two defers.
TryLock(p) ==
    /\ pc[p] = "TryLock"
    /\ \E failed \in BOOLEAN :
        IF failed
        THEN \* the lock file cannot be opened or locked
             OsExit(p, 1, << Ev("TryLock", "", "error") >>,
                    << LogEv("error", "cannot lock the lock file", "", <<>>) >>)
        ELSE IF flockHolder # NoProc
        THEN \* locked = false
             ReturnFromMain(p, << Ev("TryLock", "", "busy") >>,
                    << LogEv("warning", "Another instance", "", <<>>) >>)
        ELSE /\ flockHolder' = p
             /\ deferred' = [deferred EXCEPT ![p] = << "Unlock", "cancel" >>]
             /\ ctx' = [ctx EXCEPT ![p] = "live"]
             /\ Goto(p, "LookPath", << Ev("TryLock", "", "locked") >>, <<>>)
             /\ UNCHANGED << env, childEnv >>

\* The 30-minute deadline of the run context elapses.
DeadlineElapses(p) ==
    /\ ctx[p] = "live"
    /\ ctx' = [ctx EXCEPT ![p] = "expired"]
    /\ UNCHANGED << appConfig, keychain, pmsetOut, flockHolder, pc, deferred,
                    env, childEnv, hist, logged, exitStatus >>

\* Variant of LookPath: a missing executable is logged and the run carries on.
LookPathErrorIgnored(p) ==
    /\ pc[p] = "LookPath"
    /\ \E found \in BOOLEAN :
        /\ Goto(p, "isOnPower",
                << Ev("LookPath", "", IF found THEN "ok" ELSE "error") >>,
                IF found THEN <<>>
                ELSE << LogEv("error", "cannot find the restic command", "", <<>>) >>)
        /\ UNCHANGED << flockHolder, ctx, deferred, env, childEnv >>

\* main(), lines 246-249: exec.LookPath(appConfig.Restic.Path).
LookPath(p) ==
    /\ pc[p] = "LookPath"
    /\ \E found \in BOOLEAN :
        IF found
        THEN /\ Goto(p, "isOnPower", << Ev("LookPath", "", "ok") >>, <<>>)
             /\ UNCHANGED << flockHolder, ctx, deferred, env, childEnv >>
        ELSE ReturnFromMain(p, << Ev("LookPath", "", "error") >>,
                 << LogEv("error", "cannot find the restic command", "", <<>>) >>)

\* isOnPower(), lines 96-97: the power-status command is started under
\* context.TODO(), a context that is never done.
StartPmset(p) ==
    /\ pc[p] = "isOnPower"
    /\ Goto(p, "pmset_running", <<>>, <<>>)
    /\ UNCHANGED << flockHolder, ctx, deferred, env, childEnv >>

\* main(), lines 251-260: the power-status command returns; the power check
\* and the power requirement.
CheckPower(p) ==
    /\ pc[p] = "pmset_running"
    /\ \E failed \in BOOLEAN :
        LET r == isOnPower(failed, pmsetOut)
            ops == << Ev("pmset", "", IF failed THEN "error" ELSE "ok") >>
        IN
        IF r.err
        THEN ReturnFromMain(p, ops,
                 << LogEv("error", "cannot check AC power", "", <<>>) >>)
        ELSE IF appConfig.RequireAcPower /\ ~r.isAcPower
        THEN ReturnFromMain(p, ops,
                 << LogEv("warning", "not on AC power", "", <<>>) >>)
        ELSE /\ Goto(p, "setupEnv", ops, <<>>)
             /\ UNCHANGED << flockHolder, ctx, deferred, env, childEnv >>

----------------------------------------------------------------------------
\* Number of operations `op` among the operations h of a process.
CountOp(h, op) == Cardinality({ k \in 1..Len(h) : h[k].op = op })

\* Variant of getSecurityData: the failure is logged without ending the
\* process.
getSecurityDataNotFatal(answer) ==
    [fatal |-> FALSE, val |-> TrimSpace(answer.out)]

\* getSecurityData(), lines 107-124: err of CombinedOutput is the only check;
\* the result is the trimmed output.
getSecurityData(answer) ==
    IF answer.status # "ok"
    THEN [fatal |-> TRUE, val |-> <<>>]
    ELSE [fatal |-> FALSE, val |-> TrimSpace(answer.out)]

\* getSecurityData(), lines 108-112: the secret-store query is started under
\* a context with a one-minute timeout.
StartSecurity(p) ==
    /\ pc[p] = "setupEnv"
    /\ Goto(p, "security_running", <<>>, <<>>)
    /\ UNCHANGED << flockHolder, ctx, deferred, env, childEnv >>

\* setupEnv(), lines 219-225: one os.Setenv(name, getSecurityData(...)) line,
\* from the moment the query returns or is killed by its timeout.  A failed
\* query ends the process through log.Fatal.
setupEnv(p) ==
    /\ pc[p] = "security_running"
    /\ LET i == CountOp(hist[p], "security") + 1
           r == getSecurityData(keychain[i])
       IN IF r.fatal
          THEN OsExit(p, 1, << Ev("security", Accounts[i], "error") >>,
                   << LogEv("fatal", "cannot get security data", "",
                            SecurityService) >>)
          ELSE /\ env' = [env EXCEPT ![p][EnvNames[i]] =
                             [set |-> TRUE, val |-> r.val]]
               /\ Goto(p, IF i = Len(Accounts) THEN "backup" ELSE "setupEnv",
                       << Ev("security", Accounts[i], "ok"),
                          Ev("Setenv", EnvNames[i], "ok") >>, <<>>)
               /\ UNCHANGED << flockHolder, ctx, deferred, childEnv >>

----------------------------------------------------------------------------
\* Variant of LineEvents: the test for an empty line is missing.
RECURSIVE LineEventsKeepEmpty(_, _, _)
LineEventsKeepEmpty(level, operation, lines) ==
    IF lines = <<>> THEN <<>>
    ELSE << LogEv(level, "line", operation, Head(lines)) >>
         \o LineEventsKeepEmpty(level, operation, Tail(lines))

\* One log event per non-empty line.
RECURSIVE LineEvents(_, _, _)
LineEvents(level, operation, lines) ==
    IF lines = <<>> THEN <<>>
    ELSE (IF Head(lines) # <<>>
          THEN << LogEv(level, "line", operation, Head(lines)) >> ELSE <<>>)
         \o LineEvents(level, operation, Tail(lines))

\* runResticCommand(), lines 138-162: the log events of one engine command,
\* given whether cmd.Run() returned an error and the two captured buffers.
runResticCommand(operation, failed, stdout, stderr) ==
    IF failed
    THEN LineEvents("error", operation, Split(TrimSpace(stderr)))
             \o << LogEv("error", "failed to execute the command", operation, <<>>) >>
    ELSE LineEvents("info", operation, Split(TrimSpace(stdout)))

\* Variant of AfterBackup: the failure is logged and the run carries on.
AfterBackupNoExit(p, failed, ops, evs) ==
    /\ Goto(p, IF appConfig.CleanupOldBackups THEN "forget" ELSE "sendAwsMetrics",
            ops,
            IF failed
            THEN evs \o << LogEv("error", "Backup failed", "backup", <<>>) >>
            ELSE evs)
    /\ UNCHANGED << flockHolder, ctx, deferred, env, childEnv >>

\* Variant of AfterBackup: forget follows a successful backup whatever
\* cleanup_old_backups says.
AfterBackupAlwaysForgets(p, failed, ops, evs) ==
    IF failed
    THEN OsExit(p, 1, ops, evs \o << LogEv("error", "Backup failed", "backup", <<>>) >>)
    ELSE /\ Goto(p, "forget", ops, evs)
         /\ UNCHANGED << flockHolder, ctx, deferred, env, childEnv >>

\* main(), lines 264-274, after runResticCommand(ctx, "backup", ...) returned.
AfterBackup(p, failed, ops, evs) ==
    IF failed
    THEN OsExit(p, 1, ops, evs \o << LogEv("error", "Backup failed", "backup", <<>>) >>)
    ELSE /\ Goto(p, IF appConfig.CleanupOldBackups THEN "forget"
                    ELSE "sendAwsMetrics", ops, evs)
         /\ UNCHANGED << flockHolder, ctx, deferred, env, childEnv >>

\* Variant of AfterForget: a failed forget ends the run.
AfterForgetReturns(p, failed, ops, evs) ==
    IF failed
    THEN ReturnFromMain(p, ops,
             evs \o << LogEv("error", "Forget failed", "forget", <<>>) >>)
    ELSE /\ Goto(p, "sendAwsMetrics", ops, evs)
         /\ UNCHANGED << flockHolder, ctx, deferred, env, childEnv >>

\* main(), lines 275-290, after runResticCommand(ctx, "forget", ...) returned.
AfterForget(p, failed, ops, evs) ==
    /\ Goto(p, "sendAwsMetrics", ops,
            IF failed
            THEN evs \o << LogEv("error", "Forget failed", "forget", <<>>) >>
            ELSE evs)
    /\ UNCHANGED << flockHolder, ctx, deferred, env, childEnv >>

AfterCommand(p, operation, failed, ops, evs) ==
    IF operation = "backup" THEN AfterBackup(p, failed, ops, evs)
    ELSE AfterForget(p, failed, ops, evs)

\* exec.CommandContext(ctx, ...).Run(), first half: with the context already
\* done no process is started and Run() returns the context's error; otherwise
\* the engine is started with the process environment.
StartEngine(p, operation) ==
    /\ pc[p] = operation
    /\ IF ctx[p] = "expired"
       THEN AfterCommand(p, operation, TRUE,
                    << RunEv(operation, TRUE, <<>>, <<>>) >>,
                    runResticCommand(operation, TRUE, <<>>, <<>>))
       ELSE /\ Goto(p, operation \o "_running",
                    << Ev("engine", operation, "started") >>, <<>>)
            /\ childEnv' = [childEnv EXCEPT ![p] = Append(@, env[p])]
            /\ UNCHANGED << flockHolder, ctx, deferred, env >>

\* Run(), second half: the engine exits by itself, or is killed when the
\* context's deadline has elapsed, and Run() then returns an error.  The
\* buffers hold what the engine wrote, one of stdouts and one of stderrs.
EngineExitsWith(p, operation, stdouts, stderrs) ==
    /\ pc[p] = operation \o "_running"
    /\ \E failed \in BOOLEAN, stdout \in stdouts, stderr \in stderrs :
        /\ ctx[p] = "expired" => failed
        /\ AfterCommand(p, operation, failed,
               << RunEv(operation, failed, stdout, stderr) >>,
               runResticCommand(operation, failed, stdout, stderr))

EngineExits(p, operation) ==
    EngineExitsWith(p, operation, EngineStdouts, EngineStderrs)

----------------------------------------------------------------------------
\* sendAwsMetrics(), lines 166-216: the operations and log events of one
\* call.  Loading the SDK configuration can fail before anything is sent, and
\* PutMetricData can fail.
sendAwsMetrics(outcome) ==
    IF outcome = "config"
    THEN [ops |-> << Ev("sendAwsMetrics", "", "error") >>,
          evs |-> << LogEv("error", "cannot load AWS SDK config", "", <<>>) >>,
          err |-> TRUE]
    ELSE IF outcome = "put"
    THEN [ops |-> << Ev("sendAwsMetrics", "", "error"),
                     Ev("PutMetricData", "", "error") >>,
          evs |-> << LogEv("error", "cannot put metric data", "", <<>>) >>,
          err |-> TRUE]
    ELSE [ops |-> << Ev("sendAwsMetrics", "", "ok"),
                     Ev("PutMetricData", "", "ok") >>,
          evs |-> << LogEv("info", "Sent backup metrics", "", <<>>) >>,
          err |-> FALSE]

\* Variant of Report: the completion event is left out when the metrics push
\* failed.
ReportOnlyAfterMetrics(p) ==
    /\ pc[p] = "sendAwsMetrics"
    /\ \E outcome \in {"config", "put", "ok"} :
        LET r == sendAwsMetrics(outcome) IN
        /\ ctx[p] = "expired" => outcome # "ok"
        /\ Goto(p, "return", r.ops,
               r.evs
                 \o (IF r.err
                     THEN << LogEv("error", "cannot send backup metrics", "", <<>>) >>
                     ELSE << LogEv("info", "Backup completed successfully", "", <<>>) >>))
        /\ UNCHANGED << flockHolder, ctx, deferred, env, childEnv >>

\* main(), lines 291-297: the metrics push, whose error is only logged, and
\* the completion event.  PutMetricData cannot succeed once the context is
\* done.
Report(p) ==
    /\ pc[p] = "sendAwsMetrics"
    /\ \E outcome \in {"config", "put", "ok"} :
        LET r == sendAwsMetrics(outcome) IN
        /\ ctx[p] = "expired" => outcome # "ok"
        /\ Goto(p, "return", r.ops,
               r.evs
                 \o (IF r.err
                     THEN << LogEv("error", "cannot send backup metrics", "", <<>>) >>
                     ELSE <<>>)
                 \o << LogEv("info", "Backup completed successfully", "", <<>>) >>)
        /\ UNCHANGED << flockHolder, ctx, deferred, env, childEnv >>

\* main(), line 298: falling off the end of main().
Return(p) ==
    /\ pc[p] = "return"
    /\ ReturnFromMain(p, <<>>, <<>>)

----------------------------------------------------------------------------
Next ==
    \E p \in Procs :
        \/ TryLock(p)
        \/ DeadlineElapses(p)
        \/ LookPath(p)
        \/ StartPmset(p)
        \/ CheckPower(p)
        \/ StartSecurity(p)
        \/ setupEnv(p)
        \/ StartEngine(p, "backup")
        \/ EngineExits(p, "backup")
        \/ StartEngine(p, "forget")
        \/ EngineExits(p, "forget")
        \/ Report(p)
        \/ Return(p)

Spec == Init /\ [][Next]_vars

\* What is certain to happen.  A process takes its own steps.  The deadline
\* of the run context elapses, and an engine process whose context is done is
\* killed, so its cmd.Run() returns.  The secret-store query returns or is
\* killed by its one-minute timeout.  The power-status command runs under
\* context.TODO(): nothing makes it return.
Fairness ==
    \A p \in Procs :
        /\ WF_vars(TryLock(p))
        /\ WF_vars(LookPath(p))
        /\ WF_vars(StartPmset(p))
        /\ WF_vars(StartSecurity(p))
        /\ WF_vars(setupEnv(p))
        /\ WF_vars(DeadlineElapses(p))
        /\ WF_vars(StartEngine(p, "backup"))
        /\ WF_vars(StartEngine(p, "forget"))
        /\ WF_vars(ctx[p] = "expired" /\ EngineExits(p, "backup"))
        /\ WF_vars(ctx[p] = "expired" /\ EngineExits(p, "forget"))
        /\ WF_vars(Report(p))
        /\ WF_vars(Return(p))

SpecLive == Init /\ [][Next]_vars /\ Fairness

\* A single invocation whose engine commands may write any of these buffers:
\* nothing, an empty line, one line, leading and inner empty lines with no
\* trailing newline.
RunnerOutputs ==
    { <<>>, << NL >>, << "a", NL >>, << NL, "a", NL, NL, "b" >> }

\* What the engine writes to stderr when it cannot open the repository: a
\* message line, then the repository location it was given in its environment
\* (cmd.Env), with no trailing newline.
RepositoryMessage(e) == << "l", NL >> \o e["RESTIC_REPOSITORY"].val

\* The buffers cmd.Stderr may hold for an engine started by process p.
RunnerStderrs(p) == RunnerOutputs \cup { RepositoryMessage(env[p]) }

NextRunner ==
    \E p \in {1} :
        \/ TryLock(p)
        \/ DeadlineElapses(p)
        \/ LookPath(p)
        \/ StartPmset(p)
        \/ CheckPower(p)
        \/ StartSecurity(p)
        \/ setupEnv(p)
        \/ StartEngine(p, "backup")
        \/ EngineExitsWith(p, "backup", RunnerOutputs, RunnerStderrs(p))
        \/ StartEngine(p, "forget")
        \/ EngineExitsWith(p, "forget", RunnerOutputs, RunnerStderrs(p))
        \/ Report(p)
        \/ Return(p)

SpecRunner == Init /\ [][NextRunner]_vars

----------------------------------------------------------------------------
\* Vocabulary of the properties.

Exited(p) == pc[p] = "exited"

\* The process performed the operation at least once.
Did(p, op) == CountOp(hist[p], op) > 0

DidWith(p, op, arg, result) ==
    \E k \in 1..Len(hist[p]) :
        /\ hist[p][k].op = op
        /\ hist[p][k].arg = arg
        /\ hist[p][k].result = result

DidResult(p, op, result) ==
    \E k \in 1..Len(hist[p]) : hist[p][k].op = op /\ hist[p][k].result = result

Logged(p, event) == \E k \in 1..Len(logged[p]) : logged[p][k].event = event

\* The process is between a successful TryLock and its termination.
HoldsLock(p) == pc[p] \notin {"TryLock", "exited"}

\* An engine process started by p is running.
EngineRunning(p) == pc[p] \in {"backup_running", "forget_running"}

\* No engine command was run, no engine process started.
NoEngine(p) == ~Did(p, "engine") /\ ~Did(p, "cmd.Run")

NoSecret(p) == ~Did(p, "security") /\ ~Did(p, "Setenv") /\ env[p] = UnsetEnv

NoMetrics(p) == ~Did(p, "sendAwsMetrics") /\ ~Did(p, "PutMetricData")

\* TryLock returned locked = false.
WasBusy(p) == DidResult(p, "TryLock", "busy")

BackupFailed(p) == DidWith(p, "cmd.Run", "backup", "error")

BackupOk(p) == DidWith(p, "cmd.Run", "backup", "ok")

\* The run got past setupEnv.
ReachedBackup(p) == CountOp(hist[p], "Setenv") = Len(Accounts)

----------------------------------------------------------------------------
\* C1: at most one invocation at a time holds the lock, the kernel's lock is
\* with that invocation, and no two invocations run the engine at once.
C1_MutualExclusion ==
    /\ \A p \in Procs : HoldsLock(p) => flockHolder = p
    /\ \A p, q \in Procs :
          p # q => /\ ~(HoldsLock(p) /\ HoldsLock(q))
                   /\ ~(EngineRunning(p) /\ EngineRunning(q))

\* One invocation runs the engine; another met the held lock and stopped.
C1_Witness ==
    \E p, q \in Procs : p # q /\ EngineRunning(p) /\ WasBusy(q)

\* C2: a terminated run that acquired the lock called Unlock exactly once.
C2_ReleasedByUnlockOnEveryExit ==
    \A p \in Procs :
        Exited(p) /\ DidResult(p, "TryLock", "locked")
            => CountOp(hist[p], "Unlock") = 1

\* C3: an invocation that finds the lock held exits 0 having done nothing but
\* log the warning, and the holder still has the lock.
C3_BusyHasNoSideEffects ==
    /\ \A p \in Procs :
          WasBusy(p) => /\ Exited(p)
                        /\ exitStatus[p] = 0
                        /\ Len(hist[p]) = 1
                        /\ env[p] = UnsetEnv
                        /\ Len(logged[p]) = 1
    /\ \A q \in Procs : HoldsLock(q) => flockHolder = q /\ UnlockDeferred(deferred[q])

\* An invocation stopped on Busy while the holder is still in its run.
C3_Witness ==
    \E p, q \in Procs : p # q /\ WasBusy(p) /\ HoldsLock(q) /\ Did(q, "LookPath")

\* C4: a failing secret-store query ends the process with status 1 with no
\* engine command and no metrics push; the engine is only ever run after five
\* successful queries.
C4_FetchFailureIsFatal ==
    \A p \in Procs :
        /\ \A i \in 1..Len(Accounts) :
              CountOp(hist[p], "security") >= i /\ keychain[i].status # "ok"
                  => Exited(p) /\ exitStatus[p] = 1 /\ NoEngine(p) /\ NoMetrics(p)
        /\ CountOp(hist[p], "Setenv") < Len(Accounts) => NoEngine(p) /\ NoMetrics(p)

\* A query after the first one failed, with earlier secrets already in the
\* environment.
C4_Witness ==
    \E p \in Procs :
        /\ Exited(p)
        /\ DidResult(p, "security", "error")
        /\ CountOp(hist[p], "Setenv") >= 1

\* C5: the engine is never started with one of the five credential variables
\* set to the empty string.
C5_NoEmptyCredential ==
    \A p \in Procs : \A k \in 1..Len(childEnv[p]) : \A n \in EnvNameSet :
        ~(childEnv[p][k][n].set /\ childEnv[p][k][n].val = <<>>)

\* C6: when require_ac_power is set and the power check reports false, the run
\* exits 0 with no secret fetched, no engine command and no metrics push.
C6_PowerRequirementSkips ==
    \A p \in Procs :
        /\ appConfig.RequireAcPower
        /\ DidResult(p, "pmset", "ok")
        /\ ~ContainsAcPower(pmsetOut)
        => /\ Exited(p)
           /\ exitStatus[p] = 0
           /\ NoSecret(p)
           /\ NoEngine(p)
           /\ NoMetrics(p)

C6_Witness ==
    \E p \in Procs :
        /\ appConfig.RequireAcPower
        /\ DidResult(p, "pmset", "ok")
        /\ ~ContainsAcPower(pmsetOut)
        /\ Logged(p, "not on AC power")

\* C7: a failed backup command ends the run with non-zero status, without
\* forget and without metrics; a run that got to the backup exits non-zero
\* only in that case.
C7_BackupFailureExitsNonZero ==
    \A p \in Procs :
        /\ BackupFailed(p) =>
              /\ Exited(p)
              /\ exitStatus[p] # 0
              /\ ~DidWith(p, "engine", "forget", "started")
              /\ CountOp(hist[p], "cmd.Run") = 1
              /\ NoMetrics(p)
        /\ ReachedBackup(p) /\ Exited(p) /\ exitStatus[p] # 0 => BackupFailed(p)

\* The engine ran and failed.
C7_Witness ==
    \E p \in Procs :
        /\ BackupFailed(p)
        /\ DidWith(p, "engine", "backup", "started")
        /\ Logged(p, "line")

\* C8: after a successful backup command sendAwsMetrics is called exactly once
\* by the end of the run, whatever forget did, and the run exits 0 whatever
\* forget and the metrics push did.
C8_SecondaryFailuresNotFatal ==
    \A p \in Procs :
        /\ CountOp(hist[p], "sendAwsMetrics") <= 1
        /\ BackupOk(p) /\ Exited(p) =>
              /\ exitStatus[p] = 0
              /\ CountOp(hist[p], "sendAwsMetrics") = 1
        /\ Did(p, "sendAwsMetrics") => BackupOk(p)

\* Both forget and the metrics push failed.
C8_Witness ==
    \E p \in Procs :
        /\ Exited(p)
        /\ BackupOk(p)
        /\ DidWith(p, "cmd.Run", "forget", "error")
        /\ DidResult(p, "sendAwsMetrics", "error")

\* C9: when the engine executable is not found the run stops with no secret
\* fetched and no engine command, and the process exits non-zero.
C9_MissingExecutableExitsNonZero ==
    \A p \in Procs :
        DidResult(p, "LookPath", "error") =>
            Exited(p) /\ NoSecret(p) /\ NoEngine(p) /\ exitStatus[p] # 0

\* C10: a failing power-status command stops the run, whatever
\* require_ac_power says: no secret fetched, no engine command, no metrics.
C10_PowerCheckErrorStopsRun ==
    \A p \in Procs :
        DidResult(p, "pmset", "error") =>
            Exited(p) /\ NoSecret(p) /\ NoEngine(p) /\ NoMetrics(p)

\* The command failed on a host that does not require AC power.
C10_Witness ==
    \E p \in Procs :
        /\ ~appConfig.RequireAcPower
        /\ DidResult(p, "pmset", "error")
        /\ Logged(p, "cannot check AC power")

----------------------------------------------------------------------------
\* Vocabulary of the properties about the log.

\* The non-empty lines of a captured buffer, in order.
IsLine(l) == l # <<>>

ExpectedLines(buf) == SelectSeq(Split(buf), IsLine)

\* The log events of p tagged with an engine operation.
EventsOf(p, operation) ==
    LET Tagged(e) == e.operation = operation
    IN SelectSeq(logged[p], Tagged)

\* The texts of the line events of p for an operation at a level.
LoggedLines(p, operation, level) ==
    LET IsLineAt(e) ==
            e.operation = operation /\ e.event = "line" /\ e.level = level
        sel == SelectSeq(logged[p], IsLineAt)
    IN [k \in 1..Len(sel) |-> sel[k].text]

AsLineEvents(level, operation, lines) ==
    [k \in 1..Len(lines) |-> LogEv(level, "line", operation, lines[k])]

\* The returned engine commands of p.
Runs(p) == { k \in 1..Len(hist[p]) : hist[p][k].op = "cmd.Run" }

----------------------------------------------------------------------------
\* C11: for every engine command, whether it failed or not, every non-empty
\* stderr line is logged exactly once at error level.
C11_StderrAlwaysLogged ==
    \A p \in Procs : \A k \in Runs(p) :
        LoggedLines(p, hist[p][k].arg, "error") = ExpectedLines(hist[p][k].stderr)

----------------------------------------------------------------------------
\* C13: every subprocess of a run that holds the lock is ended by a deadline
\* if it does not return by itself, so the run always terminates.
C13_RunAlwaysTerminates ==
    \A p \in Procs : DidResult(p, "TryLock", "locked") ~> Exited(p)

----------------------------------------------------------------------------
\* C14: no acquired lock outlives its process.  Whatever way a process that
\* acquired the lock has ended, it is not the holder any more: the holder, if
\* any, is a process that is still running, and an acquisition can only have
\* found the lock busy when another process had acquired it.
C14_LockDoesNotOutliveProcess ==
    /\ \A p \in Procs : Exited(p) => flockHolder # p
    /\ flockHolder # NoProc => HoldsLock(flockHolder)
    /\ \A q \in Procs :
         WasBusy(q) => \E p \in Procs \ {q} : DidResult(p, "TryLock", "locked")

\* A process acquired the lock and ended through os.Exit(1) after a failed
\* backup, another one through log.Fatal; a later acquisition succeeded.
C14_Witness ==
    \E p \in Procs : \E q \in Procs \ {p} :
        /\ Exited(p) /\ exitStatus[p] = 1
        /\ DidResult(p, "TryLock", "locked")
        /\ (BackupFailed(p) \/ DidResult(p, "security", "error"))
        /\ flockHolder = q
        /\ DidResult(q, "TryLock", "locked")

----------------------------------------------------------------------------
\* C16: when TryLock() returns an error, the process exits with status 1 and
\* has done nothing else: no Unlock(), no preflight check, no secret fetch,
\* no engine command, no metrics push.
C16_LockErrorExitsAtOnce ==
    \A p \in Procs :
        DidResult(p, "TryLock", "error") =>
            /\ Exited(p) /\ exitStatus[p] = 1
            /\ hist[p] = << Ev("TryLock", "", "error") >>
            /\ ~Did(p, "Unlock") /\ ~Did(p, "LookPath") /\ ~Did(p, "pmset")
            /\ NoSecret(p) /\ NoEngine(p) /\ NoMetrics(p)
            /\ childEnv[p] = <<>>
            /\ Len(logged[p]) = 1 /\ logged[p][1].level = "error"

\* TryLock() returned an error although no process holds the lock.
C16_Witness ==
    \E p \in Procs :
        /\ DidResult(p, "TryLock", "error")
        /\ Exited(p)
        /\ flockHolder = NoProc

----------------------------------------------------------------------------
\* Does the text hold the value as a contiguous part?
Contains(text, val) ==
    \E i \in 0..(Len(text) - Len(val)) :
        SubSeq(text, i + 1, i + Len(val)) = val

\* The non-empty secret values process p has fetched.
SecretValues(p) ==
    { env[p][n].val : n \in { m \in EnvNameSet : env[p][m].set } } \ { <<>> }

\* C15: fetched secret values are never logged.  No log event of a process,
\* the fatal event of a failed fetch included, holds the value of any secret
\* the process has fetched.
C15_SecretsNeverLogged ==
    \A p \in Procs : \A k \in 1..Len(logged[p]) : \A v \in SecretValues(p) :
        ~Contains(logged[p][k].text, v)

----------------------------------------------------------------------------
\* The operations of a run up to the power check, all successful.
Preflight ==
    << Ev("TryLock", "", "locked"), Ev("LookPath", "", "ok"), Ev("pmset", "", "ok") >>

\* The five secret fetches, each followed by its assignment into the process
\* environment, in the order region, access key, secret key, repository,
\* password.
Fetches ==
    [ k \in 1..(2 * Len(Accounts)) |->
        IF k % 2 = 1 THEN Ev("security", Accounts[(k + 1) \div 2], "ok")
        ELSE Ev("Setenv", EnvNames[k \div 2], "ok") ]

\* The positions in the history of p at which an engine command `operation` is
\* invoked: the engine started, or cmd.Run() returned without starting it.
Invocations(p, operation) ==
    { k \in 1..Len(hist[p]) :
        /\ hist[p][k].arg = operation
        /\ \/ hist[p][k].op = "engine"
           \/ hist[p][k].op = "cmd.Run" /\ (k = 1 \/ hist[p][k - 1].op # "engine") }

\* C17: run-sequence ordering.  The backup command is invoked at most once,
\* and only as the next operation after: lock acquired, executable resolved,
\* power check passed, five secrets fetched in order and each assigned into
\* the environment.  No secret is fetched before the lock is held and the
\* preflight checks have passed.
C17_RunSequenceOrdering ==
    \A p \in Procs :
        /\ Cardinality(Invocations(p, "backup")) <= 1
        /\ \A k \in Invocations(p, "backup") :
            /\ k = Len(Preflight) + Len(Fetches) + 1
            /\ SubSeq(hist[p], 1, k - 1) = Preflight \o Fetches
            /\ appConfig.RequireAcPower => ContainsAcPower(pmsetOut)
            /\ \A n \in EnvNameSet : env[p][n].set
            /\ flockHolder = p \/ Exited(p)
        /\ CountOp(hist[p], "security") <= Len(Accounts)
        /\ \A k \in 1..Len(hist[p]) :
             hist[p][k].op = "security" =>
                /\ k > Len(Preflight)
                /\ SubSeq(hist[p], 1, Len(Preflight)) = Preflight
                /\ appConfig.RequireAcPower => ContainsAcPower(pmsetOut)

\* A run that required AC power has fetched the five secrets and started the
\* backup command.
C17_Witness ==
    \E p \in Procs :
        /\ appConfig.RequireAcPower
        /\ DidWith(p, "engine", "backup", "started")
        /\ pc[p] = "backup_running"

----------------------------------------------------------------------------
\* The positions in the history of p at which cmd.Run() of `operation`
\* returned with `result`.
Returned(p, operation, result) ==
    { k \in 1..Len(hist[p]) :
        /\ hist[p][k].op = "cmd.Run"
        /\ hist[p][k].arg = operation
        /\ hist[p][k].result = result }

\* C18: the forget command is invoked at most once per run, only when
\* cleanup_old_backups is set and only as the next operation after the backup
\* command returned without error.  When it is not set, a run whose backup
\* succeeded has started the engine exactly once and goes straight from the
\* backup to the metrics push.
C18_ForgetOnlyAfterBackup ==
    \A p \in Procs :
        /\ Cardinality(Invocations(p, "forget")) <= 1
        /\ \A k \in Invocations(p, "forget") :
            /\ appConfig.CleanupOldBackups
            /\ (k - 1) \in Returned(p, "backup", "ok")
        /\ pc[p] \in {"forget", "forget_running"} =>
            appConfig.CleanupOldBackups /\ BackupOk(p)
        /\ ~appConfig.CleanupOldBackups =>
            \A k \in Returned(p, "backup", "ok") :
                /\ CountOp(hist[p], "engine") = 1
                /\ CountOp(hist[p], "cmd.Run") = 1
                /\ pc[p] \in {"sendAwsMetrics", "return", "exited"}
                /\ k < Len(hist[p]) => hist[p][k + 1].op = "sendAwsMetrics"

\* With cleanup_old_backups set, a run invoked forget after its backup and
\* has ended.
C18_Witness ==
    \E p \in Procs :
        /\ appConfig.CleanupOldBackups
        /\ BackupOk(p)
        /\ Invocations(p, "forget") # {}
        /\ Exited(p)

----------------------------------------------------------------------------
Completed == LogEv("info", "Backup completed successfully", "", <<>>)

\* The number of completion events process p has logged.
Completions(p) ==
    Cardinality({ k \in 1..Len(logged[p]) : logged[p][k] = Completed })

\* C19: the completion event is logged in a run if and only if the backup
\* command returned without error.  A run that has ended has logged it
\* exactly once if its backup succeeded, whatever forget and the metrics push
\* did, and not at all otherwise; it is the run's last log event, and it is
\* logged while the process holds the lock, before Unlock().
C19_CompletionIffBackupOk ==
    \A p \in Procs :
        /\ Completions(p) <= 1
        /\ Completions(p) = 1 =>
            /\ BackupOk(p)
            /\ logged[p][Len(logged[p])] = Completed
            /\ pc[p] \in {"return", "exited"}
        /\ pc[p] = "return" =>
            Completions(p) = 1 /\ flockHolder = p /\ ~Did(p, "Unlock")
        /\ Exited(p) =>
            /\ Completions(p) = 1 <=> BackupOk(p)
            /\ Completions(p) = 1 =>
                 /\ exitStatus[p] = 0
                 /\ hist[p][Len(hist[p])] = Ev("Unlock", "", "ok")

\* A run whose forget and whose metrics push both failed has logged the
\* completion event and still holds the lock.
C19_Witness ==
    \E p \in Procs :
        /\ pc[p] = "return"
        /\ DidWith(p, "cmd.Run", "forget", "error")
        /\ DidResult(p, "sendAwsMetrics", "error")
        /\ Completions(p) = 1
        /\ flockHolder = p

====
